---------------------------- MODULE Spec2Model ----------------------------
(***************************************************************************)
(* plexo-sdk: the typestate engine of src/backend/v2.rs (Engine<State>,    *)
(* with_context / without_context / initialize_organization) and the       *)
(* member filter compiler of src/members/operations.rs (GetMembersWhere::  *)
(* compile_sql, SDKEngine::get_members).                                   *)
(*                                                                         *)
(* Spec        : the engine handles held by callers and the organization   *)
(*               settings table they write.                                *)
(* SpecCompile : compile_sql applied to every filter tree within MaxSize.  *)
(* SpecMembers : get_members' statement text for every bounded input.      *)
(***************************************************************************)
EXTENDS Integers, Sequences, FiniteSets, TLC

VARIABLES engines, settings, last, pending, out

vars == <<engines, settings, last, pending, out>>

None == "None"

(***************************************************************************)
(* Bounds and input universes.                                             *)
(***************************************************************************)
\* Number of engine handles the callers hold at once.
MaxEngines == 2

Slots == 1..MaxEngines

\* SDKConfig values (database_url, llm_api_key).
Configs == {"cfgA", "cfgB"}

\* EngineContext values: member_id, organization_id: Option.
Contexts ==
    { [member_id |-> "m1", organization_id |-> None],
      [member_id |-> "m2", organization_id |-> "o1"] }

\* CreateOrganizationInput values; the ones serde_json cannot serialize.
OrgInputs == {"v1", "v2", "bad"}

Unserializable == {"bad"}

(***************************************************************************)
(* src/backend/v2.rs                                                       *)
(***************************************************************************)
GLOBAL_ORGANIZATION_SETTINGS_NAME == "GLOBAL_ORGANIZATION_SETTINGS_NAME"

WithoutContext == [tag |-> "WithoutContext"]

WithContext(ctx) == [tag |-> "WithContext", context |-> ctx]

NoEngine == [tag |-> "NoEngine"]

\* struct Engine<State>: db_pool and llm_client are named by the identity of
\* the shared pool / client they point to (Pool and Client clone by sharing).
Engine(config, db_pool, llm_client, state) ==
    [tag |-> "Engine", config |-> config, db_pool |-> db_pool,
     llm_client |-> llm_client, state |-> state]

IsEngine(e) == e.tag = "Engine"

Ok(v) == [tag |-> "Ok", val |-> v]

Err(e) == [tag |-> "Err", err |-> e]

NoResult == [tag |-> "NoResult"]

\* serde_json::to_string(&value)
to_string(value) ==
    IF value \in Unserializable
        THEN Err("SerializationError")
        ELSE Ok("json:" \o value)

\* SetOrganizationInputBuilder ... .owner_id(..).name(..).value(..).build()
SetOrganizationInput_ownerBug(ctx, org_serialized) ==
    [owner_id |-> ctx.organization_id,
     name |-> GLOBAL_ORGANIZATION_SETTINGS_NAME,
     value |-> org_serialized]

SetOrganizationInput(ctx, org_serialized) ==
    [owner_id |-> ctx.member_id,
     name |-> GLOBAL_ORGANIZATION_SETTINGS_NAME,
     value |-> org_serialized]

\* OrganizationCrudOperations::set_organization_setting: one row per
\* (owner_id, name); a second write of the reserved row is refused.
set_organization_setting(table, input) ==
    IF \E row \in table : row.owner_id = input.owner_id /\ row.name = input.name
        THEN [result |-> Err("DuplicateTenant"), table |-> table]
        ELSE [result |-> Ok(input), table |-> table \cup {input}]

\* impl From<OrganizationSetting> for Organization (org.into())
OrganizationFrom(setting) == [organization |-> setting]

\* Engine<WithoutContext>::initialize_organization(&self, ctx, value)
initialize_organization_noSerCheck(table, ctx, value) ==
    LET org_serialized == to_string(value)
        r == set_organization_setting(table,
                 SetOrganizationInput(ctx, IF org_serialized.tag = "Ok"
                                             THEN org_serialized.val
                                             ELSE "null"))
    IN  IF r.result.tag = "Err"
            THEN r
            ELSE [result |-> Ok(OrganizationFrom(r.result.val)), table |-> r.table]

initialize_organization(table, ctx, value) ==
    LET org_serialized == to_string(value)
    IN  IF org_serialized.tag = "Err"
            THEN [result |-> org_serialized, table |-> table]
            ELSE LET r == set_organization_setting(table,
                              SetOrganizationInput(ctx, org_serialized.val))
                 IN  IF r.result.tag = "Err"
                         THEN r
                         ELSE [result |-> Ok(OrganizationFrom(r.result.val)),
                               table |-> r.table]

\* Engine::new_without_context(config): a fresh pool and a fresh client.
new_without_context(config, fresh) ==
    Engine(config, fresh, fresh, WithoutContext)

\* impl Engine<WithoutContext> { with_context }: the receiver's type.
with_context_enabled_anyState(e) == IsEngine(e)

with_context_enabled(e) == IsEngine(e) /\ e.state.tag = "WithoutContext"

\* Engine<WithoutContext>::with_context(self, ctx)
with_context(e, ctx) ==
    Engine(e.config, e.db_pool, e.llm_client, WithContext(ctx))

\* impl Engine<WithContext> { without_context, initialize_organization }
bound_enabled(e) == IsEngine(e) /\ e.state.tag = "WithContext"

\* Engine<WithContext>::without_context(&self)
without_context_newPool(e) ==
    Engine(e.config, 0, e.llm_client, WithoutContext)

without_context(e) ==
    Engine(e.config, e.db_pool, e.llm_client, WithoutContext)

\* impl Engine<WithoutContext> { initialize_organization }: the receiver's type.
unbound_enabled(e) == IsEngine(e) /\ e.state.tag = "WithoutContext"

Idle == [op |-> "idle"]

NoOut == [tag |-> "NoOut"]

NoCall ==
    [op |-> "none", slot |-> 0, pre |-> NoEngine, post |-> NoEngine,
     via |-> NoEngine, ctx |-> None, value |-> None, result |-> NoResult,
     before |-> {}]

Call(op, slot, pre, post, via, ctx, value, result, before) ==
    [op |-> op, slot |-> slot, pre |-> pre, post |-> post, via |-> via,
     ctx |-> ctx, value |-> value, result |-> result, before |-> before]

InitEngine ==
    /\ engines = [s \in Slots |-> NoEngine]
    /\ settings = {}
    /\ last = NoCall
    /\ pending = Idle
    /\ out = NoOut

\* A new handle takes the lowest slot no handle is in.
IsFree(s) == engines[s] = NoEngine /\ \A t \in 1..(s - 1) : engines[t] # NoEngine

\* Engine::new_without_context(config).await: connect may fail.
NewWithoutContext(s, config, connected) ==
    /\ IsFree(s)
    /\ IF connected
           THEN LET e == new_without_context(config, s)
                IN  /\ engines' = [engines EXCEPT ![s] = e]
                    /\ last' = Call("new_without_context", s, NoEngine, e, NoEngine,
                                    None, None, Ok("Engine"), settings)
           ELSE /\ engines' = engines
                /\ last' = Call("new_without_context", s, NoEngine, NoEngine,
                                NoEngine, None, None, Err("SQLXError"), settings)
    /\ UNCHANGED <<settings, pending, out>>

\* Engine::new_with_context(ctx, config).await
NewWithContext(s, ctx, config, connected) ==
    /\ IsFree(s)
    /\ IF connected
           THEN LET h == new_without_context(config, s)
                    e == with_context(h, ctx)
                IN  /\ with_context_enabled(h)
                    /\ engines' = [engines EXCEPT ![s] = e]
                    /\ last' = Call("new_with_context", s, h, e, NoEngine,
                                    ctx, None, Ok("Engine"), settings)
           ELSE /\ engines' = engines
                /\ last' = Call("new_with_context", s, NoEngine, NoEngine,
                                NoEngine, ctx, None, Err("SQLXError"), settings)
    /\ UNCHANGED <<settings, pending, out>>

\* #[derive(Clone)] on Engine: a second handle to the same pool and client.
CloneEngine(s, d) ==
    /\ IsEngine(engines[s])
    /\ IsFree(d)
    /\ engines' = [engines EXCEPT ![d] = engines[s]]
    /\ last' = Call("clone", d, engines[s], engines[s], NoEngine, None, None,
                    Ok("Engine"), settings)
    /\ UNCHANGED <<settings, pending, out>>

\* engine.with_context(&ctx).await: consumes the receiver.
BindContext(s, ctx) ==
    /\ with_context_enabled(engines[s])
    /\ LET e == with_context(engines[s], ctx)
       IN  /\ engines' = [engines EXCEPT ![s] = e]
           /\ last' = Call("with_context", s, engines[s], e, NoEngine, ctx, None,
                           Ok("Engine"), settings)
    /\ UNCHANGED <<settings, pending, out>>

\* Engine<WithoutContext>::initialize_organization(&ctx, value).await
InitializeOrganizationUnbound(s, ctx, value) ==
    /\ unbound_enabled(engines[s])
    /\ LET r == initialize_organization(settings, ctx, value)
       IN  /\ settings' = r.table
           /\ last' = Call("initialize_organization", s, engines[s], engines[s],
                           NoEngine, ctx, value, r.result, settings)
    /\ UNCHANGED <<engines, pending, out>>

\* Engine<WithContext>::initialize_organization(value).await
InitializeOrganizationBound(s, value) ==
    /\ bound_enabled(engines[s])
    /\ LET ctx == engines[s].state.context
           via == without_context(engines[s])
           r == initialize_organization(settings, ctx, value)
       IN  /\ unbound_enabled(via)
           /\ settings' = r.table
           /\ last' = Call("initialize_organization_bound", s, engines[s],
                           engines[s], via, ctx, value, r.result, settings)
    /\ UNCHANGED <<engines, pending, out>>

NextEngine ==
    \/ \E s \in Slots, c \in Configs, k \in BOOLEAN : NewWithoutContext(s, c, k)
    \/ \E s \in Slots, x \in Contexts, c \in Configs, k \in BOOLEAN :
           NewWithContext(s, x, c, k)
    \/ \E s \in Slots, d \in Slots : CloneEngine(s, d)
    \/ \E s \in Slots, x \in Contexts : BindContext(s, x)
    \/ \E s \in Slots, x \in Contexts, v \in OrgInputs :
           InitializeOrganizationUnbound(s, x, v)
    \/ \E s \in Slots, v \in OrgInputs : InitializeOrganizationBound(s, v)

Spec == InitEngine /\ [][NextEngine]_vars


(***************************************************************************)
(* src/members/operations.rs                                               *)
(***************************************************************************)
\* Total size of a filter tree: its nodes plus its leaf constraints.
MaxSize == 3

\* Size of the filter trees handed to get_members.
MaxFilterSize == 2

NoneOpt == [some |-> FALSE]

Some(v) == [some |-> TRUE, v |-> v]

\* The leaf fields of GetMembersWhere, in declaration order.
LeafFields == <<"name", "email", "role", "github_id", "google_id", "photo_url">>

\* MemberRole values and the strings the other leaf fields are given.
Roles == {"Admin"}

Strings == {"a", "b"}

FieldValues(f) == IF f = "role" THEN Roles ELSE Strings

\* impl Display for MemberRole
MemberRoleDisplay(role) == role

\* struct GetMembersWhere
GetMembersWhere(leaves, and, or) ==
    [name |-> leaves["name"], email |-> leaves["email"], role |-> leaves["role"],
     github_id |-> leaves["github_id"], google_id |-> leaves["google_id"],
     photo_url |-> leaves["photo_url"], _and |-> and, _or |-> or]

FieldSet == {LeafFields[i] : i \in 1..Len(LeafFields)}

LeafCount(l) == Cardinality({f \in FieldSet : l[f].some})

\* All leaf assignments with exactly j constraints present.
LeavesExactly(j) ==
    UNION { { [f \in FieldSet |-> IF f \in P THEN Some(val[f]) ELSE NoneOpt] :
                val \in [P -> Roles \cup Strings] } :
            P \in {Q \in SUBSET FieldSet : Cardinality(Q) = j} }

WellTyped(l) == \A f \in FieldSet : l[f].some => l[f].v \in FieldValues(f)

RECURSIVE NodesLE(_), SeqsLE(_)
\* Filter trees of size at most n.
NodesLE(n) ==
    IF n < 1 THEN {}
    ELSE UNION { UNION { { GetMembersWhere(l, a, o) :
                             l \in {x \in LeavesExactly(j) : WellTyped(x)},
                             a \in {NoneOpt} \cup {Some(q) : q \in SeqsLE(ka)},
                             o \in {NoneOpt} \cup {Some(q) : q \in SeqsLE(n - 1 - j - ka)} } :
                         ka \in 0..(n - 1 - j) } :
                 j \in 0..(n - 1) }

\* Vec<GetMembersWhere> values of total size at most k.
SeqsLE(k) ==
    {<<>>} \cup UNION { { <<t>> \o q : t \in NodesLE(w), q \in SeqsLE(k - w) } :
                        w \in 1..k }

Wheres == NodesLE(MaxSize)


Quote(v) == "'" \o v \o "'"

\* format!("name = '{}'", name) and its five siblings
LeafClause(f, v) ==
    <<f, "=", Quote(IF f = "role" THEN MemberRoleDisplay(v) ELSE v)>>

\* The six `if let Some(..)` pushes, in source order.
LeafClauses(w) ==
    LET F(i) == IF w[LeafFields[i]].some
                    THEN << LeafClause(LeafFields[i], w[LeafFields[i]].v) >>
                    ELSE << >>
    IN  F(1) \o F(2) \o F(3) \o F(4) \o F(5) \o F(6)

RECURSIVE Join(_, _)
\* Vec<String>::join(sep)
Join(clauses, sep) ==
    IF clauses = << >> THEN << >>
    ELSE IF Len(clauses) = 1 THEN clauses[1]
    ELSE clauses[1] \o <<sep>> \o Join(Tail(clauses), sep)

\* The tail of compile_sql: the two groups and the OR between them.
CombineGroups_topAnd(and_clauses, or_clauses) ==
    LET first == IF and_clauses # << >>
                     THEN <<"(">> \o Join(and_clauses, "AND") \o <<")">>
                     ELSE << >>
        sep == IF or_clauses # << >> /\ first # << >> THEN <<"AND">> ELSE << >>
        second == IF or_clauses # << >>
                      THEN <<"(">> \o Join(or_clauses, "OR") \o <<")">>
                      ELSE << >>
    IN  first \o sep \o second

CombineGroups(and_clauses, or_clauses) ==
    LET first == IF and_clauses # << >>
                     THEN <<"(">> \o Join(and_clauses, "AND") \o <<")">>
                     ELSE << >>
        sep == IF or_clauses # << >> /\ first # << >> THEN <<"OR">> ELSE << >>
        second == IF or_clauses # << >>
                      THEN <<"(">> \o Join(or_clauses, "OR") \o <<")">>
                      ELSE << >>
    IN  first \o sep \o second

RECURSIVE compile_sql(_)
\* GetMembersWhere::compile_sql(&self) -> String, as its sequence of tokens.
compile_sql(w) ==
    LET Children(opt) ==
            IF opt.some THEN [i \in 1..Len(opt.v) |-> compile_sql(opt.v[i])]
                        ELSE << >>
        and_clauses == LeafClauses(w) \o Children(w._and)
        or_clauses == Children(w._or)
    IN  CombineGroups(and_clauses, or_clauses)

\* compile_sql returns the text alone: it hands no parameter to its caller.
compile_params(w) == << >>

\* impl Display for SortOrder
SortOrderDisplay(o) == IF o = "Asc" THEN "ASC" ELSE "DESC"

DefaultLimit == 100

DefaultOffset == 0

SortBys == {"name"}

SortOrders == {"Asc", "Desc"}

Limits == {DefaultLimit, 5}

Offsets == {DefaultOffset, 7}

Opt(S) == {NoneOpt} \cup {Some(x) : x \in S}

\* struct GetMembersInput
GetMembersInput(filter, sort_by, sort_order, limit, offset) ==
    [filter |-> filter, sort_by |-> sort_by, sort_order |-> sort_order,
     limit |-> limit, offset |-> offset]

\* GetMembersInputBuilder::build(): a field no setter was called on takes its
\* default, None or Some(100) / Some(0).
GetMembersInputBuilder_build(b) ==
    GetMembersInput(b.filter, b.sort_by, b.sort_order,
                    IF b.limit.some THEN b.limit ELSE Some(DefaultLimit),
                    IF b.offset.some THEN b.offset ELSE Some(DefaultOffset))

Filters == Opt(NodesLE(MaxFilterSize))

\* Every GetMembersInput written as a struct literal.
LiteralInputs ==
    { GetMembersInput(f, sb, so, l, o) :
        f \in Filters, sb \in Opt(SortBys), so \in Opt(SortOrders),
        l \in Opt(Limits), o \in Opt(Offsets) }

\* Every GetMembersInput the builder returns.
BuiltInputs ==
    { GetMembersInputBuilder_build(GetMembersInput(f, sb, so, l, o)) :
        f \in Filters, sb \in Opt(SortBys), so \in Opt(SortOrders),
        l \in Opt(Limits), o \in Opt(Offsets) }

\* The statement text get_members builds, as its sequence of tokens.
get_members_query(input) ==
    <<"SELECT", "*", "FROM", "members">>
    \o (IF input.filter.some
            THEN <<"WHERE">> \o compile_sql(input.filter.v) ELSE << >>)
    \o (IF input.sort_by.some THEN <<"ORDER BY", input.sort_by.v>> ELSE << >>)
    \o (IF input.sort_order.some
            THEN <<SortOrderDisplay(input.sort_order.v)>> ELSE << >>)
    \o (IF input.limit.some THEN <<"LIMIT", ToString(input.limit.v)>> ELSE << >>)
    \o (IF input.offset.some THEN <<"OFFSET", ToString(input.offset.v)>> ELSE << >>)

\* sqlx::query(query.as_str()).fetch_all(..): no value is bound.
get_members_binds(input) == << >>

InitCompile ==
    /\ engines = [s \in Slots |-> NoEngine]
    /\ settings = {}
    /\ last = NoCall
    /\ pending \in {[op |-> "compile_sql", arg |-> w] : w \in Wheres}
    /\ out = NoOut

\* filter.compile_sql()
CompileSql ==
    /\ pending.op = "compile_sql"
    /\ out = NoOut
    /\ out' = [tag |-> "Out", sql |-> compile_sql(pending.arg),
               params |-> compile_params(pending.arg)]
    /\ UNCHANGED <<engines, settings, last, pending>>

SpecCompile == InitCompile /\ [][CompileSql]_vars

InitMembers ==
    /\ engines = [s \in Slots |-> NoEngine]
    /\ settings = {}
    /\ last = NoCall
    /\ pending \in {[op |-> "get_members", arg |-> i, origin |-> "literal"] :
                       i \in LiteralInputs}
                   \cup {[op |-> "get_members", arg |-> i, origin |-> "builder"] :
                       i \in BuiltInputs}
    /\ out = NoOut

\* SDKEngine::get_members(input).await: the statement is built, then run.
GetMembers(fetched) ==
    /\ pending.op = "get_members"
    /\ out = NoOut
    /\ out' = [tag |-> "Out", query |-> get_members_query(pending.arg),
               binds |-> get_members_binds(pending.arg),
               result |-> IF fetched THEN "Ok" ELSE "SQLXError"]
    /\ UNCHANGED <<engines, settings, last, pending>>

NextMembers == \E fetched \in BOOLEAN : GetMembers(fetched)

SpecMembers == InitMembers /\ [][NextMembers]_vars

(***************************************************************************)
(* Claims about the engine (checked under Spec).                           *)
(***************************************************************************)
InitOps == {"initialize_organization", "initialize_organization_bound"}

ReservedRow(table, owner) ==
    {row \in table : row.owner_id = owner
                     /\ row.name = GLOBAL_ORGANIZATION_SETTINGS_NAME}

\* C1: the context-implicit initialize_organization is enabled only on a gate
\* whose state tag is WithContext and takes its context from the gate;
\* with_context is enabled only on a WithoutContext gate, without_context is
\* applied only to a WithContext gate, and on a WithoutContext gate
\* initialize_organization is given its context explicitly.
C1_GateGuards ==
    /\ \A s \in Slots :
          /\ (\E v \in OrgInputs : ENABLED InitializeOrganizationBound(s, v))
                => (IsEngine(engines[s]) /\ engines[s].state.tag = "WithContext")
          /\ (\E x \in Contexts : ENABLED BindContext(s, x))
                => (IsEngine(engines[s]) /\ engines[s].state.tag = "WithoutContext")
          /\ (\E x \in Contexts, v \in OrgInputs :
                  ENABLED InitializeOrganizationUnbound(s, x, v))
                => (IsEngine(engines[s]) /\ engines[s].state.tag = "WithoutContext")
    /\ last.op = "initialize_organization_bound"
          => (last.pre.state.tag = "WithContext" /\ last.ctx = last.pre.state.context)
    /\ last.op = "with_context" => last.pre.state.tag = "WithoutContext"
    /\ last.op = "initialize_organization"
          => (last.pre.state.tag = "WithoutContext" /\ last.ctx \in Contexts)
    /\ last.via # NoEngine => last.pre.state.tag = "WithContext"

C1_Witness ==
    /\ last.op = "initialize_organization_bound"
    /\ \E s \in Slots : IsEngine(engines[s]) /\ engines[s].state.tag = "WithoutContext"

\* C2: with_context always succeeds on a WithoutContext gate h and returns a
\* gate carrying exactly the given context; without_context of that gate is
\* h again: equal config, the same pool and client, and no context value.
C2_BindUnbindRoundTrip ==
    /\ \A s \in Slots, x \in Contexts :
          (IsEngine(engines[s]) /\ engines[s].state.tag = "WithoutContext")
             => ENABLED BindContext(s, x)
    /\ last.op = "with_context" =>
          /\ last.result.tag = "Ok"
          /\ last.post.state = WithContext(last.ctx)
          /\ engines[last.slot] = last.post
          /\ LET u == without_context(last.post)
             IN  /\ u = last.pre
                 /\ u.config = last.pre.config
                 /\ u.db_pool = last.pre.db_pool
                 /\ u.llm_client = last.pre.llm_client
                 /\ u.state.tag = "WithoutContext"
                 /\ DOMAIN u.state = {"tag"}
    /\ last.via # NoEngine =>
          /\ last.via.config = last.pre.config
          /\ last.via.db_pool = last.pre.db_pool
          /\ last.via.llm_client = last.pre.llm_client
          /\ DOMAIN last.via.state = {"tag"}

C2_Witness ==
    /\ last.op = "with_context"
    /\ last.pre.config = "cfgB"
    /\ last.post.state.context.organization_id = "o1"
    /\ \E s \in Slots : s # last.slot /\ IsEngine(engines[s])
                        /\ engines[s].db_pool = last.post.db_pool

\* C3: initialize_organization(v) on a WithContext gate with context c gives
\* the result and the table that initialize_organization(c, v) gives on a
\* WithoutContext gate over the same pool; on success exactly one row
\* (owner c.member_id, the reserved name, the serialization of v) is added;
\* the gate is left as it was and the result carries no engine.
C3_BoundDelegates ==
    last.op = "initialize_organization_bound" =>
       LET c == last.pre.state.context
           ref == initialize_organization(last.before, c, last.value)
           row == [owner_id |-> c.member_id,
                   name |-> GLOBAL_ORGANIZATION_SETTINGS_NAME,
                   value |-> "json:" \o last.value]
       IN  /\ last.result = ref.result
           /\ settings = ref.table
           /\ last.via.db_pool = last.pre.db_pool
           /\ last.via = Engine(last.pre.config, last.pre.db_pool,
                                last.pre.llm_client, WithoutContext)
           /\ engines[last.slot] = last.pre
           /\ last.post = last.pre
           /\ last.result.tag = "Ok" =>
                 /\ row \notin last.before
                 /\ settings = last.before \cup {row}
                 /\ last.result.val = OrganizationFrom(row)
           /\ last.result.tag = "Err" => settings = last.before

C3_Witness ==
    /\ last.op = "initialize_organization_bound"
    /\ last.result.tag = "Ok"
    /\ last.pre.state.context.member_id = "m2"
    /\ Cardinality(settings) = 2

\* C4 as stated: once the reserved row exists for an owner, every later
\* initialize_organization for that owner fails with DuplicateTenant and
\* leaves the table unchanged; an unserializable input fails with
\* SerializationError before any row is written.
C4_Original ==
    last.op \in InitOps =>
       /\ ReservedRow(last.before, last.ctx.member_id) # {}
             => (last.result = Err("DuplicateTenant") /\ settings = last.before)
       /\ last.value \in Unserializable
             => (last.result = Err("SerializationError") /\ settings = last.before)

\* C4 amended: rows are never removed or changed; an unserializable input
\* fails with SerializationError and writes nothing, whether or not the owner
\* is initialized; once the reserved row exists for an owner, every later
\* call for that owner with a serializable input fails with DuplicateTenant
\* and leaves the table unchanged.
C4_Amended ==
    /\ last.before \subseteq settings
    /\ \A m \in {x.member_id : x \in Contexts} :
          Cardinality(ReservedRow(settings, m)) <= 1
    /\ last.op \in InitOps =>
          /\ last.value \in Unserializable
                => (last.result = Err("SerializationError") /\ settings = last.before)
          /\ (last.value \notin Unserializable
              /\ ReservedRow(last.before, last.ctx.member_id) # {})
                => (last.result = Err("DuplicateTenant") /\ settings = last.before)

C4_Witness ==
    /\ last.op \in InitOps
    /\ last.value \notin Unserializable
    /\ last.result = Err("DuplicateTenant")
    /\ \E row \in ReservedRow(settings, last.ctx.member_id) :
          row.value # "json:" \o last.value

C4_WitnessSerialization ==
    /\ last.op \in InitOps
    /\ last.value \in Unserializable
    /\ ReservedRow(last.before, last.ctx.member_id) # {}


(***************************************************************************)
(* Claims about compile_sql (checked under SpecCompile).                   *)
(***************************************************************************)
Compiled == pending.op = "compile_sql" /\ out.tag = "Out"

Range(q) == {q[i] : i \in 1..Len(q)}

Count(q, t) == Cardinality({i \in 1..Len(q) : q[i] = t})

NoLeaves(w) == \A f \in FieldSet : ~w[f].some

ChildSeq(opt) == IF opt.some THEN opt.v ELSE << >>

AndItems(w) ==
    LeafClauses(w)
    \o [i \in 1..Len(ChildSeq(w._and)) |-> compile_sql(ChildSeq(w._and)[i])]

OrItems(w) == [i \in 1..Len(ChildSeq(w._or)) |-> compile_sql(ChildSeq(w._or)[i])]

Group(items, sep) == <<"(">> \o Join(items, sep) \o <<")">>

RECURSIVE TotalLeaves(_), SumLeaves(_)
\* The leaf constraints of a tree, its children's included.
TotalLeaves(w) ==
    LeafCount(w) + SumLeaves(ChildSeq(w._and)) + SumLeaves(ChildSeq(w._or))

SumLeaves(q) ==
    IF q = << >> THEN 0 ELSE TotalLeaves(Head(q)) + SumLeaves(Tail(q))

QuotedLiterals == {Quote(v) : v \in Strings} \cup {Quote(MemberRoleDisplay(r)) : r \in Roles}

C6_Original ==
    Compiled =>
       LET w == pending.arg
       IN  (/\ NoLeaves(w)
            /\ \A i \in 1..Len(AndItems(w)) : AndItems(w)[i] = << >>
            /\ \A i \in 1..Len(OrItems(w)) : OrItems(w)[i] = << >>)
              => out.sql = << >>

\* C7 as stated: every leaf constraint becomes a "field = ?" term, its value
\* is a parameter and never part of the text, and there is one parameter per
\* placeholder; {name: "a", email: "b"} gives (name = ? AND email = ?) with
\* parameters ["a", "b"].
C7_Original ==
    Compiled =>
       LET w == pending.arg
       IN  /\ Range(out.sql) \cap QuotedLiterals = {}
           /\ Count(out.sql, "?") = TotalLeaves(w)
           /\ Len(out.params) = Count(out.sql, "?")
           /\ (/\ w.name = Some("a") /\ w.email = Some("b") /\ LeafCount(w) = 2
               /\ ChildSeq(w._and) = << >> /\ ChildSeq(w._or) = << >>)
                 => /\ out.sql = <<"(", "name", "=", "?", "AND", "email", "=", "?", ")">>
                    /\ out.params = <<"a", "b">>

(***************************************************************************)
(* Claims about get_members (checked under SpecMembers).                   *)
(***************************************************************************)
Assembled == pending.op = "get_members" /\ out.tag = "Out"

Directions == {SortOrderDisplay(o) : o \in SortOrders}

\* C8 as stated: the statement holds a WHERE only if the filter is present and
\* compiles to a non-empty condition.
C8_Original ==
    Assembled =>
       ("WHERE" \in Range(out.query)
           => (pending.arg.filter.some /\ compile_sql(pending.arg.filter.v) # << >>))

\* C9 as stated: ORDER BY <sort_by> is in the statement exactly when sort_by
\* is present; without sort_by there is no direction token, whatever
\* sort_order is; with sort_by and without sort_order there is none either.
C9_Original ==
    Assembled =>
       LET q == out.query
           i == pending.arg
       IN  /\ ("ORDER BY" \in Range(q)) <=> i.sort_by.some
           /\ ~i.sort_by.some => Range(q) \cap Directions = {}
           /\ (i.sort_by.some /\ ~i.sort_order.some) => Range(q) \cap Directions = {}
           /\ (i.sort_by.some /\ i.sort_order.some)
                 => \E k \in 1..(Len(q) - 2) :
                       /\ q[k] = "ORDER BY"
                       /\ q[k + 1] = i.sort_by.v
                       /\ q[k + 2] = SortOrderDisplay(i.sort_order.v)

\* C10 as stated: the statement always ends with LIMIT <limit> OFFSET
\* <offset>, with 100 for an absent limit and 0 for an absent offset.
C10_Original ==
    Assembled =>
       LET q == out.query
           i == pending.arg
           limit == IF i.limit.some THEN i.limit.v ELSE DefaultLimit
           offset == IF i.offset.some THEN i.offset.v ELSE DefaultOffset
       IN  /\ Len(q) >= 4
           /\ SubSeq(q, Len(q) - 3, Len(q))
                 = <<"LIMIT", ToString(limit), "OFFSET", ToString(offset)>>

\* The inputs the builder returns do end with LIMIT and OFFSET.
C10_BuilderInputs ==
    (Assembled /\ pending.origin = "builder") =>
       LET q == out.query
       IN  /\ Len(q) >= 4
           /\ SubSeq(q, Len(q) - 3, Len(q))
                 = <<"LIMIT", ToString(pending.arg.limit.v),
                     "OFFSET", ToString(pending.arg.offset.v)>>

=============================================================================
